---- MODULE Spec2Model ----
(***************************************************************************)
(* Annotation Session Engine of Few_Shot/draw_boxes_.py (AnnotationApp):   *)
(* group navigation, per-image box lists, undo stack, unsaved flag,        *)
(* category registry and the three JSON stores.  Every handler of the      *)
(* class is one action; the helper methods are operators from a record of  *)
(* the object's fields ("self") to the record after the call, so that a    *)
(* handler that calls _load_subfolder_by_index or _action_save_annotations *)
(* is one atomic step, as it is on the single Tk event thread.             *)
(*                                                                         *)
(* Python lists are objects: after                                         *)
(*   annotations_data[name]["annotations"] = active.copy()                 *)
(* the per-image lists of the stored record ARE the lists of the active    *)
(* dict until the active dict is rebuilt.  `aliased` holds the image names *)
(* whose active list is that shared object.                                *)
(***************************************************************************)
EXTENDS Integers, Sequences, FiniteSets, TLC

\* ---------------------------------------------------------------- bounds
MaxOps == 6              \* user actions in one session (a drag counts once)
MaxWriteFailures == 1    \* failed file writes in one session

\* ------------------------------------------------------ program constants
NumSlots == 4            \* range(4): the four image canvases
MinDim == 5              \* smallest accepted box extent
IMAGE_DISPLAY_SIZE == <<500, 500>>
None == "None"           \* Python None
EmptyDict == << >>       \* {} : the function with empty domain

Slots == 0 .. (NumSlots - 1)

\* ------------------------------------------------- environment (file system)
\* The main folder the user may choose: "" is a cancelled dialog.
FolderChoices == {"", "empty_root", "root"}
DirsOf(path) == IF path = "root" THEN {"C", "A", "B"} ELSE {}
\* image files of each subfolder (all with a supported extension)
ImagesOf(g) == CASE g = "A" -> {"a2", "a1"}
                 [] g = "B" -> {"b1"}
                 [] g = "C" -> {"c1", "c2"}
                 [] OTHER   -> {}
\* image files that Image.open cannot read
Unreadable == {"c2"}
\* lexicographic rank of the names that occur (str.__lt__ on these names)
Rank(n) == CASE n = "A" -> 1 [] n = "B" -> 2 [] n = "C" -> 3
             [] n = "a1" -> 4 [] n = "a2" -> 5 [] n = "b1" -> 6
             [] n = "c1" -> 7 [] n = "c2" -> 8 [] OTHER -> 9

\* sorted(S): the sequence of the elements of S in ascending order
RECURSIVE sorted(_)
sorted(S) ==
  IF S = {} THEN << >>
  ELSE LET m == CHOOSE x \in S : \A y \in S : Rank(x) <= Rank(y)
       IN  <<m>> \o sorted(S \ {m})

\* ------------------------------------------------------------ user inputs
ClickSlots == {0, 1, 2}  \* the canvases the user draws on
PressPoints == {<<100, 100>>}
ReleasePoints == {<<10, 10>>, <<503, 10>>, <<102, 102>>}
SelectChoices == {"tables"}
\* what the user types into the "New Annotation Type" dialog, as characters
RawNames == { <<"T", "a", "b", "l", "e", "s">>,
              <<" ", "o", "t", "h", "e", "r", " ">> }

\* ------------------------------------------------------------- str helpers
\* str.lower() on one character
lower_char(c) == CASE c = "T" -> "t" [] c = "F" -> "f" [] c = "O" -> "o"
                   [] c = "M" -> "m" [] OTHER -> c
lower(cs) == [i \in 1 .. Len(cs) |-> lower_char(cs[i])]
RECURSIVE lstrip(_)
lstrip(cs) == IF cs # << >> /\ Head(cs) = " " THEN lstrip(Tail(cs)) ELSE cs
RECURSIVE rstrip(_)
rstrip(cs) == IF cs # << >> /\ cs[Len(cs)] = " "
              THEN rstrip(SubSeq(cs, 1, Len(cs) - 1)) ELSE cs
strip(cs) == rstrip(lstrip(cs))
\* the string made of the characters cs
RECURSIVE join(_)
join(cs) == IF cs = << >> THEN "" ELSE Head(cs) \o join(Tail(cs))

\* ------------------------------------------------------------ dict helpers
Has(d, k) == k \in DOMAIN d
Get(d, k, default) == IF k \in DOMAIN d THEN d[k] ELSE default
Put(d, k, v) == [x \in (DOMAIN d) \cup {k} |-> IF x = k THEN v ELSE d[x]]
\* list.index / `in` on a list
InList(x, l) == \E i \in 1 .. Len(l) : l[i] = x
IndexOf(x, l) == CHOOSE i \in 1 .. Len(l) : l[i] = x /\ \A j \in 1 .. (i - 1) : l[j] # x
InsertAt(l, i, x) == SubSeq(l, 1, i - 1) \o <<x>> \o SubSeq(l, i, Len(l))

\* ------------------------------------------------------------------ files
Missing == [kind |-> "missing"]
Corrupt == [kind |-> "corrupt"]
Json(data) == [kind |-> "json", data |-> data]

VARIABLES
  app_state,            \* "constructing" | "running" | "destroyed" (root.destroy())
  main_folder_path,
  subfolders,
  current_subfolder_index,
  current_subfolder_name,
  annotations_data,
  progress_data,
  current_image_names,
  annotation_type_var,
  current_subfolder_active_annotations,
  aliased,
  canvas_drawing_state,
  undo_stack,
  unsaved_changes,
  annotation_types,
  count_labels,
  annotations_file,     \* annotations.json
  progress_file,        \* progress.json
  annotation_types_file,\* annotation_types.json
  lastOp,               \* the handler that ran last and the messages it showed
  pointer_slot,         \* the canvas button 1 went down on, -1 when it is up
  ops,                  \* user actions so far (bounded by MaxOps)
  write_failures,       \* failed writes so far (bounded by MaxWriteFailures)
  as_loaded,            \* history: the active box lists right after the last load
  loaded_type,          \* history: the selected category right after the last load
  last_saved,           \* history: per group, the record of its last save (or of the file read)
  added                 \* history: <<image, box>> stored since the last load and not undone

progvars == <<app_state, main_folder_path, subfolders, current_subfolder_index,
              current_subfolder_name, annotations_data, progress_data,
              current_image_names, annotation_type_var,
              current_subfolder_active_annotations, aliased, canvas_drawing_state,
              undo_stack, unsaved_changes, annotation_types, count_labels,
              annotations_file, progress_file, annotation_types_file>>
vars == <<progvars, lastOp, pointer_slot, ops, write_failures, as_loaded, loaded_type,
          last_saved, added>>

\* the object's fields and the files, as one record
Self ==
  [ app_state |-> app_state,
    main_folder_path |-> main_folder_path,
    subfolders |-> subfolders,
    current_subfolder_index |-> current_subfolder_index,
    current_subfolder_name |-> current_subfolder_name,
    annotations_data |-> annotations_data,
    progress_data |-> progress_data,
    current_image_names |-> current_image_names,
    annotation_type_var |-> annotation_type_var,
    current_subfolder_active_annotations |-> current_subfolder_active_annotations,
    aliased |-> aliased,
    canvas_drawing_state |-> canvas_drawing_state,
    undo_stack |-> undo_stack,
    unsaved_changes |-> unsaved_changes,
    annotation_types |-> annotation_types,
    count_labels |-> count_labels,
    annotations_file |-> annotations_file,
    progress_file |-> progress_file,
    annotation_types_file |-> annotation_types_file,
    out |-> {},           \* messages shown / events of the running handler
    failed |-> 0 ]        \* writes that failed in the running handler

\* the state after a handler that ended in record s
Becomes(s) ==
  /\ app_state' = s.app_state
  /\ main_folder_path' = s.main_folder_path
  /\ subfolders' = s.subfolders
  /\ current_subfolder_index' = s.current_subfolder_index
  /\ current_subfolder_name' = s.current_subfolder_name
  /\ annotations_data' = s.annotations_data
  /\ progress_data' = s.progress_data
  /\ current_image_names' = s.current_image_names
  /\ annotation_type_var' = s.annotation_type_var
  /\ current_subfolder_active_annotations' = s.current_subfolder_active_annotations
  /\ aliased' = s.aliased
  /\ canvas_drawing_state' = s.canvas_drawing_state
  /\ undo_stack' = s.undo_stack
  /\ unsaved_changes' = s.unsaved_changes
  /\ annotation_types' = s.annotation_types
  /\ count_labels' = s.count_labels
  /\ annotations_file' = s.annotations_file
  /\ progress_file' = s.progress_file
  /\ annotation_types_file' = s.annotation_types_file
  /\ write_failures' = write_failures + s.failed
  /\ as_loaded' = IF "loaded" \in s.out
                  THEN s.current_subfolder_active_annotations ELSE as_loaded
  /\ loaded_type' = IF "loaded" \in s.out THEN s.annotation_type_var ELSE loaded_type

\* ----------------------------------------------------------------- helpers
\* display_types = [t for t in self.annotation_types if t != 'other']
display_types(types) == SelectSeq(types, LAMBDA t : t # "other")

\* self.annotation_type_combo['values']: set from display_types by every
\* _rebuild_annotation_widgets, which follows every change of annotation_types
combo_values(s) == display_types(s.annotation_types)

\* _write_json_file: json.dump to the file, or an error box when open() fails
write_json_file(s, file, data, ok) ==
  IF ok THEN [s EXCEPT ![file] = Json(data)]
  ELSE [s EXCEPT !.out = @ \cup {"write_error"}, !.failed = @ + 1]

\* _read_json_file
read_json_file(file, default_val) ==
  IF file.kind = "json" THEN file.data ELSE default_val

\* the count labels left as they are
update_annotation_counts_stale(s) == s

\* _update_annotation_counts
update_annotation_counts(s) ==
  [s EXCEPT !.count_labels =
     [t \in DOMAIN s.count_labels |->
        Cardinality({g \in DOMAIN s.annotations_data :
                       LET ty == Get(s.annotations_data[g], "type_of_annotation", "")
                       IN  ty # "" /\ ty = t})]]

\* _rebuild_annotation_widgets
rebuild_annotation_widgets(s) ==
  LET dt == display_types(s.annotation_types)
      s1 == IF dt # << >> /\ s.annotation_type_var = ""
            THEN [s EXCEPT !.annotation_type_var = dt[1]] ELSE s
      s2 == [s1 EXCEPT !.count_labels = [t \in {dt[i] : i \in 1 .. Len(dt)} |-> 0]]
  IN  update_annotation_counts(s2)

\* _save_annotation_types
save_annotation_types(s, ok) ==
  write_json_file(s, "annotation_types_file", s.annotation_types, ok)

default_types == <<"paragraphs", "tables", "images", "headings", "other">>

\* _load_annotation_types
load_annotation_types(s, ok) ==
  IF s.annotation_types_file.kind = "json"
  THEN [s EXCEPT !.annotation_types = s.annotation_types_file.data]
  ELSE IF s.annotation_types_file.kind = "missing"
       THEN save_annotation_types([s EXCEPT !.annotation_types = default_types], ok)
       ELSE [s EXCEPT !.annotation_types = default_types]

\* canvas_drawing_state[canvas] = {'image_name': img_name}
FreshDrawingState(img) ==
  [image_name |-> img, active_rect_id |-> FALSE, start |-> None]

\* a clearing that leaves the undo stack alone
clear_display_keeping_undo(s) ==
  [s EXCEPT !.current_image_names = [i \in Slots |-> None],
            !.current_subfolder_active_annotations = EmptyDict,
            !.aliased = {},
            !.unsaved_changes = FALSE]

\* _clear_display_and_current_data
clear_display_and_current_data(s) ==
  [s EXCEPT !.current_image_names = [i \in Slots |-> None],
            !.current_subfolder_active_annotations = EmptyDict,
            !.aliased = {},
            !.undo_stack = << >>,
            !.unsaved_changes = FALSE]

\* a load that clears the display before it looks at the index
load_subfolder_by_index_clearing(s, idx) ==
  IF ~(0 <= idx /\ idx < Len(s.subfolders))
  THEN [clear_display_and_current_data(s) EXCEPT !.out = @ \cup {"boundary"}]
  ELSE
    LET c == clear_display_and_current_data(s)
        name == s.subfolders[idx + 1]
        image_files == sorted(ImagesOf(name))
        subfolder_data == Get(c.annotations_data, name, EmptyDict)
        annotation_type0 == Get(subfolder_data, "type_of_annotation", c.annotation_type_var)
        cv == combo_values(c)
        annotation_type == IF ~InList(annotation_type0, cv)
                           THEN (IF cv # << >> THEN cv[1] ELSE "")
                           ELSE annotation_type0
        annotations == Get(subfolder_data, "annotations", EmptyDict)
        Opened(i) == i < Len(image_files) /\ image_files[i + 1] \notin Unreadable
        opened == {image_files[i + 1] : i \in {j \in Slots : Opened(j)}}
    IN  [c EXCEPT
           !.current_subfolder_index = idx,
           !.current_subfolder_name = name,
           !.annotation_type_var = annotation_type,
           !.current_image_names =
              [i \in Slots |-> IF Opened(i) THEN image_files[i + 1] ELSE None],
           !.canvas_drawing_state =
              [i \in Slots |-> IF Opened(i) THEN FreshDrawingState(image_files[i + 1])
                               ELSE c.canvas_drawing_state[i]],
           !.current_subfolder_active_annotations =
              [img \in opened |-> Get(annotations, img, << >>)],
           !.unsaved_changes = FALSE,
           !.out = @ \cup {"loaded"}]

\* a default that is the first combobox value instead of the current one
combo_first(s) ==
  IF combo_values(s) # << >> THEN combo_values(s)[1] ELSE ""

\* self.annotation_type_combo.get(): the combobox shows annotation_type_var
combo_get(s) == s.annotation_type_var

\* _load_subfolder_by_index
load_subfolder_by_index(s, idx) ==
  IF ~(0 <= idx /\ idx < Len(s.subfolders))
  THEN [s EXCEPT !.out = @ \cup {"boundary"}]
  ELSE
    LET c == clear_display_and_current_data(s)
        name == s.subfolders[idx + 1]
        image_files == sorted(ImagesOf(name))
        subfolder_data == Get(c.annotations_data, name, EmptyDict)
        annotation_type0 == Get(subfolder_data, "type_of_annotation", combo_get(c))
        cv == combo_values(c)
        annotation_type == IF ~InList(annotation_type0, cv)
                           THEN (IF cv # << >> THEN cv[1] ELSE "")
                           ELSE annotation_type0
        annotations == Get(subfolder_data, "annotations", EmptyDict)
        Opened(i) == i < Len(image_files) /\ image_files[i + 1] \notin Unreadable
        opened == {image_files[i + 1] : i \in {j \in Slots : Opened(j)}}
    IN  [c EXCEPT
           !.current_subfolder_index = idx,
           !.current_subfolder_name = name,
           !.annotation_type_var = annotation_type,
           !.current_image_names =
              [i \in Slots |-> IF Opened(i) THEN image_files[i + 1] ELSE None],
           !.canvas_drawing_state =
              [i \in Slots |-> IF Opened(i) THEN FreshDrawingState(image_files[i + 1])
                               ELSE c.canvas_drawing_state[i]],
           !.current_subfolder_active_annotations =
              [img \in opened |-> Get(annotations, img, << >>)],
           !.unsaved_changes = FALSE,
           !.out = @ \cup {"loaded"}]

\* a record that keeps the category of the record it replaces
saved_record_merged(s) ==
  [type_of_annotation |->
     Get(Get(s.annotations_data, s.current_subfolder_name, EmptyDict),
         "type_of_annotation", s.annotation_type_var),
   annotations |-> s.current_subfolder_active_annotations]

\* {"type_of_annotation": self.annotation_type_var.get(),
\*  "annotations": self.current_subfolder_active_annotations.copy()}
saved_record(s) ==
  [type_of_annotation |-> s.annotation_type_var,
   annotations |-> s.current_subfolder_active_annotations]

\* a completed list that takes the name at every save
mark_completed_again(s, name) ==
  [s EXCEPT !.progress_data =
     Put(@, "completed_subfolders",
         Append(Get(s.progress_data, "completed_subfolders", << >>), name))]

\* completed = self.progress_data.setdefault("completed_subfolders", [])
\* if name not in completed: completed.append(name)
mark_completed(s, name) ==
  LET completed == Get(s.progress_data, "completed_subfolders", << >>)
  IN  [s EXCEPT !.progress_data =
         Put(@, "completed_subfolders",
             IF InList(name, completed) THEN completed
             ELSE Append(completed, name))]

\* the return value of _action_save_annotations
save_returns(s) == s.current_subfolder_name # ""

\* a save that writes the record but does not mark the folder completed
action_save_annotations_unmarked(s, called_from_next, okA, okP) ==
  IF s.current_subfolder_name = "" THEN s
  ELSE
    LET name == s.current_subfolder_name
        s1 == [s EXCEPT
                 !.annotations_data =
                    Put(@, name,
                        [type_of_annotation |-> s.annotation_type_var,
                         annotations |-> s.current_subfolder_active_annotations]),
                 !.aliased = DOMAIN s.current_subfolder_active_annotations]
        s2 == write_json_file(s1, "annotations_file", s1.annotations_data, okA)
        s4 == write_json_file(s2, "progress_file", s2.progress_data, okP)
        s5 == update_annotation_counts([s4 EXCEPT !.unsaved_changes = FALSE])
    IN  IF called_from_next THEN s5
        ELSE load_subfolder_by_index([s5 EXCEPT !.out = @ \cup {"saved"}],
                                     s5.current_subfolder_index)

\* _action_save_annotations
action_save_annotations(s, called_from_next, okA, okP) ==
  IF s.current_subfolder_name = "" THEN s
  ELSE
    LET name == s.current_subfolder_name
        s1 == [s EXCEPT
                 !.annotations_data = Put(@, name, saved_record(s)),
                 \* .copy() is shallow: the record holds the active lists themselves
                 !.aliased = DOMAIN s.current_subfolder_active_annotations]
        s2 == write_json_file(s1, "annotations_file", s1.annotations_data, okA)
        s3 == mark_completed(s2, name)
        s4 == write_json_file(s3, "progress_file", s3.progress_data, okP)
        s5 == update_annotation_counts([s4 EXCEPT !.unsaved_changes = FALSE])
    IN  IF called_from_next THEN s5
        ELSE load_subfolder_by_index([s5 EXCEPT !.out = @ \cup {"saved"}],
                                     s5.current_subfolder_index)

\* list.append / list.pop on the active list of img; a shared list object
\* changes in the stored record as well
set_active_list(s, img, l) ==
  LET name == s.current_subfolder_name
      s1 == [s EXCEPT !.current_subfolder_active_annotations = Put(@, img, l)]
  IN  IF img \in s.aliased
      THEN [s1 EXCEPT !.annotations_data[name].annotations = Put(@, img, l)]
      ELSE s1

Min(a, b) == IF a <= b THEN a ELSE b
Max(a, b) == IF a >= b THEN a ELSE b

\* a box built from press and release in the order they came
make_bbox_unordered(p0, p1) == <<p0[1], p0[2], p1[1], p1[2]>>

\* bbox = [int(min(x1, x2)), int(min(y1, y2)), int(max(x1, x2)), int(max(y1, y2))]
\* (pointer coordinates are whole pixels, on which int() changes nothing)
make_bbox(p0, p1) ==
  <<Min(p0[1], p1[1]), Min(p0[2], p1[2]), Max(p0[1], p1[1]), Max(p0[2], p1[2])>>

\* a size test with the threshold 2 in place of 5
too_small_below_two(bbox) == bbox[3] - bbox[1] < 2 \/ bbox[4] - bbox[2] < 2

\* if bbox[2] - bbox[0] < 5 or bbox[3] - bbox[1] < 5: return
too_small(bbox) == bbox[3] - bbox[1] < MinDim \/ bbox[4] - bbox[2] < MinDim

\* _on_canvas_press
on_canvas_press(s, slot, p) ==
  LET state == s.canvas_drawing_state[slot]
  IN  IF state.image_name = None THEN s
      ELSE [s EXCEPT !.canvas_drawing_state[slot] =
                        [state EXCEPT !.start = p, !.active_rect_id = TRUE],
                     !.out = @ \cup {"rubber_band"}]

\* _on_canvas_release
\* (start_x/start_y are read only while active_rect_id is set and are
\*  rewritten by every press, so they are kept only while a press is pending)
on_canvas_release(s, slot, p) ==
  LET state == s.canvas_drawing_state[slot]
  IN  IF ~state.active_rect_id THEN s
      ELSE
        LET s1 == [s EXCEPT !.canvas_drawing_state[slot] =
                              [state EXCEPT !.active_rect_id = FALSE, !.start = None]]
            bbox == make_bbox(state.start, p)
            img_name == state.image_name
            old == Get(s1.current_subfolder_active_annotations, img_name, << >>)
            s2 == set_active_list(s1, img_name, Append(old, bbox))
        IN  IF too_small(bbox) THEN s1
            ELSE [s2 EXCEPT !.undo_stack = Append(@, <<slot, img_name>>),
                            !.unsaved_changes = TRUE,
                            !.out = @ \cup {"box_stored"}]

\* an advance that saves only a group with unsaved changes
action_save_and_next_if_unsaved(s, okA, okP) ==
  LET s1 == IF s.unsaved_changes THEN action_save_annotations(s, TRUE, okA, okP) ELSE s
  IN  IF save_returns(s)
      THEN load_subfolder_by_index(s1, s1.current_subfolder_index + 1)
      ELSE s1

\* _action_save_and_next
action_save_and_next(s, okA, okP) ==
  LET s1 == action_save_annotations(s, TRUE, okA, okP)
  IN  IF save_returns(s)
      THEN load_subfolder_by_index(s1, s1.current_subfolder_index + 1)
      ELSE s1

\* _action_clear_current_annotations
action_clear_current_annotations(s, confirm) ==
  IF ~confirm THEN s
  ELSE
    LET s1 == [s EXCEPT
                 !.current_subfolder_active_annotations =
                    [img \in DOMAIN @ |-> << >>],
                 \* rebinding the keys to new lists ends the sharing
                 !.aliased = {}]
        s2 == load_subfolder_by_index(s1, s1.current_subfolder_index)
    IN  [s2 EXCEPT !.unsaved_changes = TRUE]

\* an undo that drops the oldest box of the image instead of the newest
action_undo_last_bbox_oldest(s) ==
  IF s.undo_stack = << >> THEN s
  ELSE
    LET top == s.undo_stack[Len(s.undo_stack)]
        img_name == top[2]
        s1 == [s EXCEPT !.undo_stack = SubSeq(@, 1, Len(@) - 1)]
        l == Get(s1.current_subfolder_active_annotations, img_name, << >>)
        s2 == IF l # << >> THEN set_active_list(s1, img_name, Tail(l)) ELSE s1
    IN  [s2 EXCEPT !.unsaved_changes = TRUE, !.out = @ \cup {"undone"}]

\* _action_undo_last_bbox
action_undo_last_bbox(s) ==
  IF s.undo_stack = << >> THEN s
  ELSE
    LET top == s.undo_stack[Len(s.undo_stack)]
        img_name == top[2]
        s1 == [s EXCEPT !.undo_stack = SubSeq(@, 1, Len(@) - 1)]
        l == Get(s1.current_subfolder_active_annotations, img_name, << >>)
        s2 == IF l # << >>
              THEN set_active_list(s1, img_name, SubSeq(l, 1, Len(l) - 1))
              ELSE s1
    IN  [s2 EXCEPT !.unsaved_changes = TRUE, !.out = @ \cup {"undone"}]

\* a previous that never asks
action_previous_subfolder_silent(s, confirm) ==
  load_subfolder_by_index(s, s.current_subfolder_index - 1)

\* _action_previous_subfolder
action_previous_subfolder(s, confirm) ==
  IF s.unsaved_changes /\ ~confirm THEN [s EXCEPT !.out = @ \cup {"kept"}]
  ELSE load_subfolder_by_index(s, s.current_subfolder_index - 1)

\* _on_annotation_type_select: the combobox has set the variable to the pick
on_annotation_type_select(s, pick) ==
  [s EXCEPT !.annotation_type_var = pick, !.unsaved_changes = TRUE]

\* a name that is trimmed but keeps its case
normalize_case_kept(raw) == join(strip(raw))

\* new_type = new_type.lower().strip()
normalize(raw) == join(strip(lower(raw)))

\* a registry that takes every new name at its end
insert_type_at_end(types, new_type) == Append(types, new_type)

\* try: insert at the index of "other"; except ValueError: append
insert_type(types, new_type) ==
  IF InList("other", types)
  THEN InsertAt(types, IndexOf("other", types), new_type)
  ELSE Append(types, new_type)

\* _add_new_annotation_type; raw is the dialog's answer (askstring returns
\* None when cancelled)
add_new_annotation_type(s, cancelled, raw, ok) ==
  IF cancelled \/ raw = << >> \/ strip(raw) = << >>
  THEN [s EXCEPT !.out = @ \cup {"cancelled_or_empty"}]
  ELSE
    LET new_type == normalize(raw)
    IN  IF InList(new_type, s.annotation_types)
        THEN [s EXCEPT !.annotation_type_var = new_type,
                       !.out = @ \cup {"already_exists"}]
        ELSE
          LET types == insert_type(s.annotation_types, new_type)
              s1 == save_annotation_types([s EXCEPT !.annotation_types = types], ok)
              s2 == rebuild_annotation_widgets(s1)
          IN  [s2 EXCEPT !.annotation_type_var = new_type,
                         !.unsaved_changes = TRUE,
                         !.out = @ \cup {"type_added"}]

\* _load_annotations_from_file
load_annotations_from_file(s) ==
  update_annotation_counts(
    [s EXCEPT !.annotations_data = read_json_file(s.annotations_file, EmptyDict)])

\* _load_progress_from_file
load_progress_from_file(s) ==
  [s EXCEPT !.progress_data =
     read_json_file(s.progress_file, [completed_subfolders |-> << >>])]

\* the subfolders in descending order, one of the orders os.listdir may give
discover_subfolders_unsorted(s) ==
  LET l == sorted(DirsOf(s.main_folder_path))
  IN  [s EXCEPT !.subfolders = [i \in 1 .. Len(l) |-> l[Len(l) + 1 - i]]]

\* _discover_subfolders
discover_subfolders(s) ==
  [s EXCEPT !.subfolders = sorted(DirsOf(s.main_folder_path))]

\* resume after the last completed folder of the list (the other variant's rule)
start_index_after_last(folders, completed) ==
  IF completed # << >> /\ InList(completed[Len(completed)], folders)
  THEN Min(IndexOf(completed[Len(completed)], folders), Len(folders) - 1)
  ELSE 0

\* the for/else of _load_initial_state: the first folder not completed,
\* or the last folder when every folder is completed
start_index(folders, completed) ==
  IF \E i \in 1 .. Len(folders) : ~InList(folders[i], completed)
  THEN (CHOOSE i \in 1 .. Len(folders) :
          /\ ~InList(folders[i], completed)
          /\ \A j \in 1 .. (i - 1) : InList(folders[j], completed)) - 1
  ELSE Max(0, Len(folders) - 1)

\* a start-up that an unreadable store file ends after the folders were listed
load_initial_state_aborting(s, path) ==
  IF path = "" THEN [s EXCEPT !.main_folder_path = path, !.app_state = "destroyed"]
  ELSE
    LET s1 == discover_subfolders([s EXCEPT !.main_folder_path = path,
                                            !.app_state = "running"])
    IN  IF s1.subfolders = << >> THEN [s1 EXCEPT !.out = @ \cup {"no_subfolders"}]
        ELSE IF s1.annotations_file.kind = "corrupt" \/ s1.progress_file.kind = "corrupt"
        THEN s1
        ELSE
          LET s2 == load_progress_from_file(load_annotations_from_file(s1))
              completed == Get(s2.progress_data, "completed_subfolders", << >>)
          IN  load_subfolder_by_index(s2, start_index(s2.subfolders, completed))

\* _load_initial_state; path is the answer of the directory dialog
load_initial_state(s, path) ==
  IF path = "" THEN [s EXCEPT !.main_folder_path = path, !.app_state = "destroyed"]
  ELSE
    LET s1 == discover_subfolders([s EXCEPT !.main_folder_path = path,
                                            !.app_state = "running"])
    IN  IF s1.subfolders = << >> THEN [s1 EXCEPT !.out = @ \cup {"no_subfolders"}]
        ELSE
          LET s2 == load_progress_from_file(load_annotations_from_file(s1))
              completed == Get(s2.progress_data, "completed_subfolders", << >>)
          IN  load_subfolder_by_index(s2, start_index(s2.subfolders, completed))

\* _on_app_close; choice is the answer of the ExitDialog
on_app_close(s, choice, okA, okP) ==
  IF s.unsaved_changes
  THEN CASE choice = "save_exit" ->
              LET s1 == action_save_annotations(s, FALSE, okA, okP)
              IN  IF save_returns(s) THEN [s1 EXCEPT !.app_state = "destroyed"] ELSE s1
         [] choice = "exit_no_save" -> [s EXCEPT !.app_state = "destroyed"]
         [] OTHER -> s
  ELSE [s EXCEPT !.app_state = "destroyed"]

\* ------------------------------------------------------------------- Init
\* the stores a previous session may have left behind
StoredBox == <<10, 10, 100, 100>>
InitAnnotationsFiles ==
  { Json([g \in {"A"} |-> [type_of_annotation |-> "tables",
                            annotations |-> [i \in {"a1"} |-> <<StoredBox>>]]]) }
InitProgressFiles ==
  { Json([completed_subfolders |-> <<"A">>]) }

\* the fields as __init__ sets them, then _load_annotation_types and _setup_ui
Constructed(af, pf, tf, ok) ==
  LET s0 == [ app_state |-> "constructing",
              main_folder_path |-> "",
              subfolders |-> << >>,
              current_subfolder_index |-> -1,
              current_subfolder_name |-> "",
              annotations_data |-> EmptyDict,
              progress_data |-> EmptyDict,
              current_image_names |-> [i \in Slots |-> None],
              annotation_type_var |-> "",
              current_subfolder_active_annotations |-> EmptyDict,
              aliased |-> {},
              canvas_drawing_state |-> [i \in Slots |-> FreshDrawingState(None)],
              undo_stack |-> << >>,
              unsaved_changes |-> FALSE,
              annotation_types |-> << >>,
              count_labels |-> EmptyDict,
              annotations_file |-> af,
              progress_file |-> pf,
              annotation_types_file |-> tf,
              out |-> {},
              failed |-> 0 ]
  IN  rebuild_annotation_widgets(load_annotation_types(s0, ok))

StartsAs(s) ==
  /\ app_state = s.app_state
  /\ main_folder_path = s.main_folder_path
  /\ subfolders = s.subfolders
  /\ current_subfolder_index = s.current_subfolder_index
  /\ current_subfolder_name = s.current_subfolder_name
  /\ annotations_data = s.annotations_data
  /\ progress_data = s.progress_data
  /\ current_image_names = s.current_image_names
  /\ annotation_type_var = s.annotation_type_var
  /\ current_subfolder_active_annotations = s.current_subfolder_active_annotations
  /\ aliased = s.aliased
  /\ canvas_drawing_state = s.canvas_drawing_state
  /\ undo_stack = s.undo_stack
  /\ unsaved_changes = s.unsaved_changes
  /\ annotation_types = s.annotation_types
  /\ count_labels = s.count_labels
  /\ annotations_file = s.annotations_file
  /\ progress_file = s.progress_file
  /\ annotation_types_file = s.annotation_types_file
  /\ lastOp = [op |-> "__init__", arg |-> None, out |-> s.out]
  /\ ops = 0
  /\ pointer_slot = -1
  /\ write_failures = s.failed
  /\ as_loaded = EmptyDict
  /\ loaded_type = s.annotation_type_var
  /\ last_saved = EmptyDict
  /\ added = << >>

Init ==
  \E af \in InitAnnotationsFiles, pf \in InitProgressFiles :
    StartsAs(Constructed(af, pf, Missing, TRUE))

\* ---------------------------------------------------------------- actions
\* a handler h ran with arguments arg and left the object as s
Ran(h, arg, s) ==
  /\ write_failures + s.failed <= MaxWriteFailures
  /\ Becomes(s)
  /\ lastOp' = [op |-> h, arg |-> arg, out |-> s.out]

Running == app_state = "running"

\* history: the record a save of the active group stores
SavedNow ==
  IF current_subfolder_name = "" THEN last_saved
  ELSE Put(last_saved, current_subfolder_name,
           [type_of_annotation |-> annotation_type_var,
            annotations |-> current_subfolder_active_annotations])

\* a user action other than the release that ends a drag
Acts == ops < MaxOps /\ ops' = ops + 1

\* handlers bound to keys and buttons leave the pointer alone
Keyboard == Acts /\ UNCHANGED pointer_slot

LoadInitialState ==
  /\ app_state = "constructing"
  /\ Keyboard
  /\ \E path \in FolderChoices :
       /\ Ran("load_initial_state", path, load_initial_state(Self, path))
       /\ added' = << >>
       /\ last_saved' = annotations_data'

\* <ButtonPress-1> on a canvas, at one of the given points; button 1 is up
\* before it goes down
CanvasPress(points) ==
  /\ Running
  /\ pointer_slot = -1
  /\ Acts
  /\ \E slot \in ClickSlots, p \in points :
       /\ Ran("press", <<slot, p>>, on_canvas_press(Self, slot, p))
       /\ pointer_slot' = slot
       /\ UNCHANGED <<added, last_saved>>

OnCanvasPress == CanvasPress(PressPoints)

\* <ButtonRelease-1> at one of the given points: Tk delivers it to the canvas
\* the button went down on
CanvasRelease(points) ==
  /\ Running
  /\ pointer_slot # -1
  /\ pointer_slot' = -1
  /\ UNCHANGED ops
  /\ \E p \in points :
       LET slot == pointer_slot
           s == on_canvas_release(Self, slot, p)
           stored == "box_stored" \in s.out
       IN  /\ Ran("release", <<slot, p>>, s)
           /\ UNCHANGED last_saved
           /\ added' = IF stored
                       THEN Append(added, <<canvas_drawing_state[slot].image_name,
                                            make_bbox(canvas_drawing_state[slot].start, p)>>)
                       ELSE added

OnCanvasRelease == CanvasRelease(ReleasePoints)

ActionSaveAnnotations ==
  /\ Running
  /\ Keyboard
  /\ \E okA \in BOOLEAN, okP \in BOOLEAN :
       LET s == action_save_annotations(Self, FALSE, okA, okP)
       IN  /\ Ran("save", <<okA, okP>>, s)
           /\ last_saved' = SavedNow
           /\ added' = IF "loaded" \in s.out THEN << >> ELSE added

ActionSaveAndNext ==
  /\ Running
  /\ Keyboard
  /\ \E okA \in BOOLEAN, okP \in BOOLEAN :
       LET s == action_save_and_next(Self, okA, okP)
       IN  /\ Ran("save_and_next", <<okA, okP>>, s)
           /\ last_saved' = SavedNow
           /\ added' = IF "loaded" \in s.out THEN << >> ELSE added

ActionClearCurrentAnnotations ==
  /\ Running
  /\ Keyboard
  /\ \E confirm \in BOOLEAN :
       LET s == action_clear_current_annotations(Self, confirm)
       IN  /\ Ran("clear", confirm, s)
           /\ UNCHANGED last_saved
           /\ added' = IF "loaded" \in s.out THEN << >> ELSE added

ActionUndoLastBbox ==
  /\ Running
  /\ Keyboard
  /\ LET s == action_undo_last_bbox(Self)
     IN  /\ Ran("undo", None, s)
         /\ UNCHANGED last_saved
         /\ added' = IF "undone" \in s.out
                     THEN SubSeq(added, 1, Len(added) - 1) ELSE added

ActionPreviousSubfolder ==
  /\ Running
  /\ Keyboard
  /\ \E confirm \in BOOLEAN :
       LET s == action_previous_subfolder(Self, confirm)
       IN  /\ unsaved_changes \/ confirm      \* the dialog is shown only when unsaved
           /\ Ran("previous", confirm, s)
           /\ UNCHANGED last_saved
           /\ added' = IF "loaded" \in s.out THEN << >> ELSE added

OnAnnotationTypeSelect ==
  /\ Running
  /\ Keyboard
  /\ \E pick \in SelectChoices :
       /\ InList(pick, combo_values(Self))
       /\ Ran("select_type", pick, on_annotation_type_select(Self, pick))
       /\ UNCHANGED <<added, last_saved>>

\* "Add New...": the dialog is cancelled or answered with one of the names
AddNewType(cancels, names) ==
  /\ Running
  /\ Keyboard
  /\ \E cancelled \in cancels, raw \in names, ok \in BOOLEAN :
       /\ Ran("add_type", <<cancelled, raw>>,
              add_new_annotation_type(Self, cancelled, raw, ok))
       /\ UNCHANGED <<added, last_saved>>

AddNewAnnotationType == AddNewType({FALSE}, RawNames)

OnAppClose ==
  /\ Running
  /\ Keyboard
  /\ \E choice \in {"save_exit", "exit_no_save", "cancel", "not_asked"},
        okA \in BOOLEAN, okP \in BOOLEAN :
       LET s == on_app_close(Self, choice, okA, okP)
       IN  /\ unsaved_changes <=> choice # "not_asked"   \* the dialog opens only when unsaved
           /\ Ran("close", choice, s)
           /\ last_saved' = IF choice = "save_exit" THEN SavedNow ELSE last_saved
           /\ added' = IF "loaded" \in s.out THEN << >> ELSE added

Next ==
  \/ LoadInitialState
  \/ OnCanvasPress
  \/ OnCanvasRelease
  \/ ActionSaveAnnotations
  \/ ActionSaveAndNext
  \/ ActionClearCurrentAnnotations
  \/ ActionUndoLastBbox
  \/ ActionPreviousSubfolder
  \/ OnAnnotationTypeSelect
  \/ AddNewAnnotationType
  \/ OnAppClose

Spec == Init /\ [][Next]_vars

\* ------------------------------------ drags at the edges of the surface
\* canvasx/canvasy of a pointer grabbed by the canvas follow it beyond the
\* 500 x 500 surface, on either side
EdgePressPoints == {<<497, 100>>, <<-3, 100>>}
EdgeReleasePoints == {<<503, 200>>, <<2, 200>>, <<499, 103>>, <<300, 90>>}

OnCanvasPressAtEdge == CanvasPress(EdgePressPoints)
OnCanvasReleaseAtEdge == CanvasRelease(EdgeReleasePoints)

NextDraw ==
  \/ LoadInitialState
  \/ OnCanvasPressAtEdge
  \/ OnCanvasReleaseAtEdge
  \/ ActionUndoLastBbox

SpecDraw == Init /\ [][NextDraw]_vars

\* ------------------------------------------- the registry of categories
\* names typed into the dialog: new ones, twice in different spellings, an
\* existing one, the reserved one and a blank answer
TypedNames == { <<"F", "i", "g">>, <<" ", "f", "i", "g">>, <<"M", "a", "p", " ">>,
                <<"T", "a", "b", "l", "e", "s">>,
                <<" ", "o", "t", "h", "e", "r", " ">>, <<" ", " ">> }

\* annotation_types.json before the session: absent, unreadable, or the
\* default list an earlier session wrote
DefaultTypesFiles == {Missing, Corrupt, Json(default_types)}

InitTypes ==
  \E af \in InitAnnotationsFiles, pf \in InitProgressFiles,
     tf \in DefaultTypesFiles, ok \in BOOLEAN :
    StartsAs(Constructed(af, pf, tf, ok))

AddNewAnnotationTypeTyped == AddNewType(BOOLEAN, TypedNames)

NextTypes ==
  \/ LoadInitialState
  \/ AddNewAnnotationTypeTyped
  \/ OnAnnotationTypeSelect
  \/ ActionSaveAndNext

SpecTypes == InitTypes /\ [][NextTypes]_vars

\* ------------------------------------------- start-up over many stores
\* every list of distinct names out of Names
ListsOver(Names) ==
  {l \in UNION {[1 .. n -> Names] : n \in 0 .. Cardinality(Names)} :
     \A i, j \in 1 .. Len(l) : i # j => l[i] # l[j]}
ResumeProgressFiles ==
  {Missing, Corrupt} \cup
  {Json([completed_subfolders |-> l]) : l \in ListsOver({"A", "B", "C"})}
ResumeAnnotationsFiles == InitAnnotationsFiles \cup {Missing, Corrupt}

InitResume ==
  \E af \in ResumeAnnotationsFiles, pf \in ResumeProgressFiles :
    StartsAs(Constructed(af, pf, Missing, TRUE))

NextResume == LoadInitialState

SpecResume == InitResume /\ [][NextResume]_vars

\* --------------------------------- sessions that end by advancing only
\* the user does up to PrepOps things (the start-up among them) and from
\* then on only saves and advances
PrepOps == 3

Preparing == ops < PrepOps
Advancing == ops >= PrepOps /\ pointer_slot = -1

PrepareByPress == Preparing /\ OnCanvasPress
PrepareByPrevious == Preparing /\ ActionPreviousSubfolder
PrepareBySelect == Preparing /\ OnAnnotationTypeSelect
PrepareByAddType == Preparing /\ AddNewAnnotationType
AdvanceOnly == Advancing /\ ActionSaveAndNext

NextAdvance ==
  \/ LoadInitialState
  \/ PrepareByPress
  \/ OnCanvasRelease
  \/ PrepareByPrevious
  \/ PrepareBySelect
  \/ PrepareByAddType
  \/ AdvanceOnly

SpecAdvance == InitResume /\ [][NextAdvance]_vars

\* ================================================================= claims
\* the boxes of image img among the history entries h, oldest first
RECURSIVE BoxesOf(_, _)
BoxesOf(h, img) ==
  IF h = << >> THEN << >>
  ELSE (IF Head(h)[1] = img THEN <<Head(h)[2]>> ELSE << >>) \o BoxesOf(Tail(h), img)

ActiveList(img) == Get(current_subfolder_active_annotations, img, << >>)
HistoryImages == {added[i][1] : i \in 1 .. Len(added)}

\* C1: since the last load, every image's box list is its as-loaded list
\* followed by the boxes stored on it and not yet undone, oldest first, where
\* each undo takes back the most recently stored box of the whole group (so
\* k undos remove the k newest boxes in reverse order, each from its own
\* image, and n undos restore the as-loaded lists); the undo stack names the
\* images of those boxes in the same order; an undo with an empty stack
\* changes nothing.
C1_UndoReversesAdds ==
  /\ [](/\ \A img \in (DOMAIN current_subfolder_active_annotations)
                        \cup (DOMAIN as_loaded) \cup HistoryImages :
             ActiveList(img) = Get(as_loaded, img, << >>) \o BoxesOf(added, img)
        /\ Len(undo_stack) = Len(added)
        /\ \A i \in 1 .. Len(added) : undo_stack[i][2] = added[i][1])
  /\ [][(lastOp'.op = "undo" /\ undo_stack = << >>) => UNCHANGED progvars]_vars

\* two boxes were stored after the load and the newer one has been undone,
\* leaving the older one behind on another image than an as-loaded box
C1_Witness ==
  /\ lastOp.op = "undo" /\ "undone" \in lastOp.out
  /\ Len(added) = 1
  /\ ActiveList(added[1][1]) = Get(as_loaded, added[1][1], << >>) \o <<added[1][2]>>

Elems(l) == {l[i] : i \in 1 .. Len(l)}
Completed == Get(progress_data, "completed_subfolders", << >>)
Images == (DOMAIN current_subfolder_active_annotations)
          \cup UNION {ImagesOf(g) : g \in DirsOf("root")}
Active == current_subfolder_name # ""

\* C2: a save of the active group (which reloads the group from the store)
\* leaves every image's box list and the selected category as they were in
\* memory when the save began.
C2_SaveReloadRoundTrip ==
  [][(lastOp'.op = "save" /\ Active) =>
       /\ \A img \in Images : ActiveList(img)' = ActiveList(img)
       /\ annotation_type_var' = annotation_type_var]_vars

\* C3: a save that directly follows a confirmed clear of the active group
\* ends with no box on any image, in memory and in the group's record of the
\* store, with the selected category and the other groups' records unchanged.
C3_ClearSaveReloadEmpty ==
  [][(lastOp.op = "clear" /\ lastOp.arg = TRUE /\ Active /\ lastOp'.op = "save") =>
       /\ \A img \in Images : ActiveList(img)' = << >>
       /\ \A img \in DOMAIN annotations_data'[current_subfolder_name].annotations :
            annotations_data'[current_subfolder_name].annotations[img] = << >>
       /\ annotation_type_var' = annotation_type_var
       /\ \A g \in DOMAIN annotations_data :
            g # current_subfolder_name => annotations_data'[g] = annotations_data[g]]_vars

\* the completed names the progress file holds
StoredCompleted ==
  IF progress_file.kind = "json"
  THEN Elems(Get(progress_file.data, "completed_subfolders", << >>)) ELSE {}

\* C4: after start-up on a folder with groups, the groups are in ascending
\* name order and the active group is the first one whose name is not in the
\* completed set of the progress store, or the last group when all are in it.
C4_ResumeAtFirstIncomplete ==
  (lastOp.op = "load_initial_state" /\ subfolders # << >>) =>
    LET n == Len(subfolders)
        i == current_subfolder_index + 1
    IN  /\ \A a, b \in 1 .. n : a < b => Rank(subfolders[a]) < Rank(subfolders[b])
        /\ Elems(subfolders) = DirsOf(main_folder_path)
        /\ i \in 1 .. n
        /\ current_subfolder_name = subfolders[i]
        /\ (\E a \in 1 .. n : subfolders[a] \notin StoredCompleted) =>
             /\ subfolders[i] \notin StoredCompleted
             /\ \A a \in 1 .. (i - 1) : subfolders[a] \in StoredCompleted
        /\ (\A a \in 1 .. n : subfolders[a] \in StoredCompleted) => i = n

\* groups A, B, C with only A completed: the session starts on B
C4_Witness ==
  /\ lastOp.op = "load_initial_state"
  /\ subfolders = <<"A", "B", "C">>
  /\ StoredCompleted = {"A"}
  /\ current_subfolder_name = "B" /\ current_subfolder_index = 1

\* C5: saveAndAdvance on an active group stores the record made of exactly
\* the selected category and the active box lists (and writes the store file
\* when the write succeeds), puts the group's name into the completed list
\* after the names already there, and then activates the next group; on the
\* last group it does the same save, reports the boundary and stays on the
\* group with its boxes and category as they were.
C5_SaveAndAdvance ==
  [][(lastOp'.op = "save_and_next" /\ Active) =>
       LET name == current_subfolder_name
           i == current_subfolder_index
           n == Len(subfolders)
           new == Get(progress_data', "completed_subfolders", << >>)
       IN  /\ name \in DOMAIN annotations_data'
           /\ annotations_data'[name] =
                [type_of_annotation |-> annotation_type_var,
                 annotations |-> current_subfolder_active_annotations]
           /\ lastOp'.arg[1] => annotations_file' = Json(annotations_data')
           /\ Elems(new) = Elems(Completed) \cup {name}
           /\ SubSeq(new, 1, Len(Completed)) = Completed
           /\ Len(new) = Len(Completed) + (IF name \in Elems(Completed) THEN 0 ELSE 1)
           /\ lastOp'.arg[2] => progress_file' = Json(progress_data')
           /\ i < n - 1 =>
                /\ current_subfolder_index' = i + 1
                /\ current_subfolder_name' = subfolders[i + 2]
                /\ "loaded" \in lastOp'.out
           /\ i = n - 1 =>
                /\ current_subfolder_index' = i
                /\ current_subfolder_name' = name
                /\ "boundary" \in lastOp'.out
                /\ current_subfolder_active_annotations' = current_subfolder_active_annotations
                /\ annotation_type_var' = annotation_type_var]_vars

\* B was annotated with one box and category "tables" and saved with advance:
\* its record holds exactly that, B joined A in the completed list, C is active
C5_Witness ==
  /\ lastOp.op = "save_and_next" /\ "loaded" \in lastOp.out
  /\ current_subfolder_name = "C"
  /\ "B" \in DOMAIN annotations_data
  /\ annotations_data["B"] = [type_of_annotation |-> "tables",
                              annotations |-> [img \in {"b1"} |-> <<StoredBox>>]]
  /\ Completed = <<"A", "B">>

\* C6: drawing a box, undoing and clearing never change a record of the
\* in-memory annotation store.
C6_SavedRecordIndependent ==
  [][lastOp'.op \in {"release", "undo", "clear"} =>
       annotations_data' = annotations_data]_vars

FileRecords == IF annotations_file.kind = "json" THEN annotations_file.data ELSE EmptyDict

\* C7: whenever the annotation file is written, the record it then holds for
\* a group other than the one being saved is that group's record as of its
\* own last save (or as read from the file at start-up).
C7_OnlyOwnSaveChangesRecord ==
  [][annotations_file' # annotations_file =>
       \A h \in DOMAIN FileRecords' :
         h # current_subfolder_name =>
           h \in DOMAIN last_saved /\ FileRecords'[h] = last_saved[h]]_vars

\* C8: a save during which a file write failed leaves the unsaved flag as
\* it was.
C8_FailedSaveKeepsDirty ==
  [][(lastOp'.op \in {"save", "save_and_next"} /\ "write_error" \in lastOp'.out) =>
       unsaved_changes' = unsaved_changes]_vars

\* what the store last received for the active group; for a group without a
\* record, the state the load produced
Baseline ==
  IF current_subfolder_name \in DOMAIN annotations_data
  THEN annotations_data[current_subfolder_name]
  ELSE [type_of_annotation |-> loaded_type, annotations |-> as_loaded]
Differs ==
  \/ annotation_type_var # Baseline.type_of_annotation
  \/ \E img \in Images : ActiveList(img) # Get(Baseline.annotations, img, << >>)

\* C9: with a group active, the unsaved flag is set exactly when the boxes
\* or the category in memory differ from what the store last received for
\* the group.
C9_DirtyIffDiffers ==
  (Running /\ Active) => (unsaved_changes <=> Differs)

\* draw_boxes.py: max(0, min(v, dim - 1))
clamp(v, dim) == Max(0, Min(v, dim - 1))

\* C10: a release that ends a drag on a slot holding an image, with both
\* extents at least 5 after clamping to the surface, appends exactly the box
\* [min x, min y, max x, max y] to that image's list and leaves every other
\* image's list unchanged.
C10_ValidDragAppendsBox ==
  [][\A slot \in Slots, p \in ReleasePoints :
       (/\ lastOp'.op = "release" /\ lastOp'.arg = <<slot, p>>
        /\ current_image_names[slot] # None
        /\ canvas_drawing_state[slot].active_rect_id
        /\ LET p0 == canvas_drawing_state[slot].start
               W == IMAGE_DISPLAY_SIZE[1]
               H == IMAGE_DISPLAY_SIZE[2]
           IN  /\ Max(clamp(p0[1], W), clamp(p[1], W))
                    - Min(clamp(p0[1], W), clamp(p[1], W)) >= 5
               /\ Max(clamp(p0[2], H), clamp(p[2], H))
                    - Min(clamp(p0[2], H), clamp(p[2], H)) >= 5)
       => LET p0 == canvas_drawing_state[slot].start
              img == current_image_names[slot]
              lo(a, b) == IF a < b THEN a ELSE b
              hi(a, b) == IF a < b THEN b ELSE a
              box == <<lo(p0[1], p[1]), lo(p0[2], p[2]), hi(p0[1], p[1]), hi(p0[2], p[2])>>
          IN  /\ ActiveList(img)' = Append(ActiveList(img), box)
              /\ Len(ActiveList(img)') = Len(ActiveList(img)) + 1
              /\ \A other \in Images \ {img} : ActiveList(other)' = ActiveList(other)]_vars

\* a drag from (100,100) back to (10,10) on a slot with an image stored the
\* box with its corners put in order
C10_Witness ==
  /\ lastOp.op = "release" /\ "box_stored" \in lastOp.out
  /\ lastOp.arg[2] = <<10, 10>>
  /\ current_image_names[lastOp.arg[1]] # None
  /\ LET l == ActiveList(current_image_names[lastOp.arg[1]])
     IN  l # << >> /\ l[Len(l)] = <<10, 10, 100, 100>>

\* the extents of a drag from p0 to p once every coordinate is clamped
ClampedExtent(p0, p, k) ==
  LET a == clamp(p0[k], IMAGE_DISPLAY_SIZE[k])
      b == clamp(p[k], IMAGE_DISPLAY_SIZE[k])
  IN  Max(a, b) - Min(a, b)

\* C11: a release that ends a drag whose x-extent or y-extent is below 5,
\* on the raw coordinates or after each coordinate is clamped to [0, dim-1],
\* stores no box: the box lists, the undo stack and the unsaved flag stay as
\* they were.  (Clamping never widens an extent, so the clamped test covers
\* the raw one.)
C11_SmallDragStoresNothing ==
  [][\A slot \in Slots, p \in ReleasePoints \cup EdgeReleasePoints :
       (/\ lastOp'.op = "release" /\ lastOp'.arg = <<slot, p>>
        /\ canvas_drawing_state[slot].active_rect_id
        /\ \/ ClampedExtent(canvas_drawing_state[slot].start, p, 1) < MinDim
           \/ ClampedExtent(canvas_drawing_state[slot].start, p, 2) < MinDim)
       => /\ current_subfolder_active_annotations' = current_subfolder_active_annotations
          /\ undo_stack' = undo_stack
          /\ unsaved_changes' = unsaved_changes]_vars

\* every box of the list satisfies P
AllBoxes(l, P(_)) == \A i \in 1 .. Len(l) : P(l[i])
\* every box of a group record satisfies P
AllOfRecord(rec, P(_)) ==
  \A img \in DOMAIN rec.annotations : AllBoxes(rec.annotations[img], P)
\* every box in the slots, in the in-memory store and in the file satisfies P
Everywhere(P(_)) ==
  /\ \A img \in DOMAIN current_subfolder_active_annotations :
       AllBoxes(current_subfolder_active_annotations[img], P)
  /\ \A g \in DOMAIN annotations_data : AllOfRecord(annotations_data[g], P)
  /\ \A g \in DOMAIN FileRecords : AllOfRecord(FileRecords[g], P)

OnSurface(b) ==
  /\ b[1] \in 0 .. (IMAGE_DISPLAY_SIZE[1] - 1) /\ b[3] \in 0 .. (IMAGE_DISPLAY_SIZE[1] - 1)
  /\ b[2] \in 0 .. (IMAGE_DISPLAY_SIZE[2] - 1) /\ b[4] \in 0 .. (IMAGE_DISPLAY_SIZE[2] - 1)

\* C12: every box of every slot has its x coordinates in [0, W-1] and its y
\* coordinates in [0, H-1] of the 500 x 500 surface, wherever the press and
\* the release happened.
C12_BoxesOnSurface ==
  \A img \in DOMAIN current_subfolder_active_annotations :
    AllBoxes(current_subfolder_active_annotations[img], OnSurface)

Canonical(b) ==
  /\ b[1] <= b[3] /\ b[2] <= b[4]
  /\ b[3] - b[1] >= MinDim /\ b[4] - b[2] >= MinDim

\* C13: in every reachable state every box in a slot, in the in-memory
\* annotation store and in the annotation file has x1 <= x2, y1 <= y2,
\* x2 - x1 >= 5 and y2 - y1 >= 5.
C13_BoxesCanonical == Everywhere(Canonical)

\* a box drawn from (100,100) back to (10,10) on B was saved, a second one
\* was drawn and undone: slot and store hold the saved box
C13_Witness ==
  /\ lastOp.op = "undo" /\ "undone" \in lastOp.out
  /\ current_subfolder_name = "B"
  /\ ActiveList("b1") = <<StoredBox>>
  /\ "B" \in DOMAIN FileRecords
  /\ FileRecords["B"].annotations = [img \in {"b1"} |-> <<StoredBox>>]

\* the step ran a save: the save handlers, or the exit dialog answered "save"
SaveRan(op) ==
  \/ op.op \in {"save", "save_and_next"}
  \/ op.op = "close" /\ op.arg = "save_exit"

NoDuplicates(l) == \A i, j \in 1 .. Len(l) : i # j => l[i] # l[j]

\* C14: the completed list starts as the names the progress file recorded,
\* a save while a group is active puts that group's name at its end unless
\* it is already there, no other step changes the list, and no name is ever
\* in it twice.
C14_CompletedExactlySaved ==
  /\ [][(lastOp'.op = "load_initial_state" /\ subfolders' # << >>) =>
          Elems(Completed') = StoredCompleted]_vars
  /\ [][lastOp'.op # "load_initial_state" =>
          Completed' = IF SaveRan(lastOp') /\ Active
                          /\ current_subfolder_name \notin Elems(Completed)
                       THEN Append(Completed, current_subfolder_name)
                       ELSE Completed]_vars
  /\ [](NoDuplicates(Completed))

\* group A, completed by an earlier session, was saved again: once in the list
C14_Witness ==
  /\ lastOp.op = "save" /\ "saved" \in lastOp.out
  /\ current_subfolder_name = "A"
  /\ Completed = <<"A">>
  /\ progress_file = Json([completed_subfolders |-> <<"A">>])

\* C15: save on an active group replaces the group's record by exactly the
\* selected category and the box lists of the slots (in memory, and in the
\* file when the write succeeds), leaves the group in the completed list,
\* clears the unsaved flag and keeps the index and the active group.
C15_SaveReplacesRecord ==
  [][(lastOp'.op = "save" /\ Active) =>
       LET name == current_subfolder_name
       IN  /\ name \in DOMAIN annotations_data'
           /\ annotations_data'[name] =
                [type_of_annotation |-> annotation_type_var,
                 annotations |-> current_subfolder_active_annotations]
           /\ lastOp'.arg[1] =>
                /\ name \in DOMAIN FileRecords'
                /\ FileRecords'[name] = annotations_data'[name]
           /\ name \in Elems(Completed')
           /\ unsaved_changes' = FALSE
           /\ current_subfolder_index' = current_subfolder_index
           /\ current_subfolder_name' = name]_vars

\* the record of A, stored by an earlier session as "tables" with a box list
\* for a1 only, was replaced by a save with category "other" and both images
C15_Witness ==
  /\ lastOp.op = "save" /\ "write_error" \notin lastOp.out
  /\ current_subfolder_name = "A"
  /\ FileRecords["A"] = [type_of_annotation |-> "other",
                         annotations |-> [img \in {"a1", "a2"} |->
                                            IF img = "a1" THEN <<StoredBox>> ELSE << >>]]

\* the object after save() followed by a load request for the next index
SaveThenLoadNext(okA, okP) ==
  LET s1 == action_save_annotations(Self, FALSE, okA, okP)
  IN  load_subfolder_by_index(s1, s1.current_subfolder_index + 1)

\* C16: saveAndAdvance on an active group leaves index, active group, box
\* lists, selected category, undo stack, unsaved flag, both in-memory stores
\* and both files as save() followed by a load request for index + 1 leaves
\* them, on the last group as well.
C16_SaveAndAdvanceIsSaveThenLoad ==
  [][(lastOp'.op = "save_and_next" /\ Active) =>
       LET t == SaveThenLoadNext(lastOp'.arg[1], lastOp'.arg[2])
       IN  /\ current_subfolder_index' = t.current_subfolder_index
           /\ current_subfolder_name' = t.current_subfolder_name
           /\ current_subfolder_active_annotations' = t.current_subfolder_active_annotations
           /\ annotation_type_var' = t.annotation_type_var
           /\ undo_stack' = t.undo_stack
           /\ unsaved_changes' = t.unsaved_changes
           /\ annotations_data' = t.annotations_data
           /\ progress_data' = t.progress_data
           /\ annotations_file' = t.annotations_file
           /\ progress_file' = t.progress_file]_vars

\* C17: right after a confirmed clear on an active group every slot has an
\* empty box list, the unsaved flag is set and the selected category is the
\* one selected before the call.
C17_ClearEmptiesSlots ==
  [][(lastOp'.op = "clear" /\ lastOp'.arg = TRUE /\ Active) =>
       /\ \A img \in Images : ActiveList(img)' = << >>
       /\ unsaved_changes' = TRUE
       /\ annotation_type_var' = annotation_type_var]_vars

\* C18: a load request for an index outside 0 .. groupCount-1 shows the
\* boundary message and changes nothing.  previous() on group 0 (once past
\* the confirmation) is such a request and leaves every field and both files
\* as they were; the request that ends saveAndAdvance on the last group
\* leaves the object exactly as the save left it.
C18_OutOfRangeLoadChangesNothing ==
  /\ [][(/\ lastOp'.op = "previous"
         /\ current_subfolder_index <= 0
         /\ ~unsaved_changes \/ lastOp'.arg)
        => "boundary" \in lastOp'.out /\ UNCHANGED progvars]_vars
  /\ [][(lastOp'.op = "previous" /\ "boundary" \in lastOp'.out)
        => UNCHANGED progvars]_vars
  /\ [][(/\ lastOp'.op = "save_and_next" /\ Active
         /\ current_subfolder_index = Len(subfolders) - 1)
        => LET t == action_save_annotations(Self, TRUE, lastOp'.arg[1], lastOp'.arg[2])
           IN  /\ "boundary" \in lastOp'.out
               /\ Self' = [t EXCEPT !.out = {}, !.failed = 0]]_vars

\* on group 0 with a box drawn and not saved, previous() with the discard
\* confirmed hit the boundary: the box, the undo entry and the flag are there
C18_Witness ==
  /\ lastOp.op = "previous" /\ lastOp.arg /\ "boundary" \in lastOp.out
  /\ current_subfolder_index = 0 /\ current_subfolder_name = "A"
  /\ unsaved_changes
  /\ undo_stack # << >>
  /\ Len(ActiveList("a1")) = 2

\* C19: previous() with unsaved changes and the discard not confirmed makes
\* no transition and leaves every field and every file unchanged; with the
\* discard confirmed, or without unsaved changes, and an index above 0 it
\* loads group index - 1: the slots hold that group's images with the box
\* lists its record has for them.
C19_PreviousNeverDiscardsSilently ==
  /\ [][(lastOp'.op = "previous" /\ unsaved_changes /\ ~lastOp'.arg)
        => /\ UNCHANGED progvars
           /\ lastOp'.out \cap {"loaded", "boundary"} = {}]_vars
  /\ [][(/\ lastOp'.op = "previous"
         /\ ~unsaved_changes \/ lastOp'.arg
         /\ current_subfolder_index > 0)
        => LET name == subfolders[current_subfolder_index]
               rec == Get(annotations_data, name, EmptyDict)
           IN  /\ "loaded" \in lastOp'.out
               /\ current_subfolder_index' = current_subfolder_index - 1
               /\ current_subfolder_name' = name
               /\ DOMAIN current_subfolder_active_annotations' = ImagesOf(name) \ Unreadable
               /\ \A img \in ImagesOf(name) \ Unreadable :
                    ActiveList(img)' = Get(Get(rec, "annotations", EmptyDict), img, << >>)
               /\ undo_stack' = << >>
               /\ unsaved_changes' = FALSE
               /\ UNCHANGED <<annotations_data, progress_data, annotations_file,
                              progress_file>>]_vars

\* a drawn box was not saved, previous() was called and the discard refused:
\* still on B with the box, the undo entry and the flag
C19_Witness ==
  /\ lastOp.op = "previous" /\ ~lastOp.arg /\ "kept" \in lastOp.out
  /\ current_subfolder_name = "B"
  /\ unsaved_changes
  /\ Len(undo_stack) = 1
  /\ ActiveList("b1") = <<StoredBox>>

Closed == app_state = "destroyed"
Files == <<annotations_file, progress_file, annotation_types_file>>

\* C20: an exit request without unsaved changes closes the session and
\* writes no file.  With unsaved changes on an active group the answer
\* decides: "cancel" leaves every field and file unchanged and the session
\* open, "exit without saving" closes with the files unchanged, "save and
\* exit" closes with the annotation file and the progress file holding the
\* in-memory stores.  Once closed, no step changes a field or a file.
C20_ExitProtocol ==
  /\ [][(lastOp'.op = "close" /\ ~unsaved_changes)
        => Closed' /\ UNCHANGED Files]_vars
  /\ [][(lastOp'.op = "close" /\ unsaved_changes /\ lastOp'.arg = "cancel")
        => UNCHANGED progvars]_vars
  /\ [][(lastOp'.op = "close" /\ unsaved_changes /\ lastOp'.arg = "exit_no_save")
        => Closed' /\ UNCHANGED Files]_vars
  /\ [][(lastOp'.op = "close" /\ unsaved_changes /\ Active /\ lastOp'.arg = "save_exit")
        => /\ Closed'
           /\ annotations_file' = Json(annotations_data')
           /\ progress_file' = Json(progress_data')]_vars
  /\ [][Closed => UNCHANGED progvars]_vars

\* the step ended with a group loaded by a navigation, a save or the start-up
LoadCompleted(op) ==
  /\ op.op \in {"load_initial_state", "previous", "save", "save_and_next"}
  /\ "loaded" \in op.out

\* the images shown in the slots
SlotImages == {current_image_names[i] : i \in Slots} \ {None}

\* C21: when a load completes, every slot's image has the box list the
\* in-memory store holds for it in the loaded group's record (empty without
\* one), the selected category is the record's category when the group has a
\* record, the undo stack is empty, the unsaved flag is clear and no other
\* image has boxes.
C21_LoadRestoresGroup ==
  [][LoadCompleted(lastOp') =>
       LET name == current_subfolder_name'
           rec == Get(annotations_data', name, EmptyDict)
       IN  /\ \A img \in SlotImages' :
                ActiveList(img)' = Get(Get(rec, "annotations", EmptyDict), img, << >>)
           /\ DOMAIN current_subfolder_active_annotations' = SlotImages'
           /\ "type_of_annotation" \in DOMAIN rec =>
                annotation_type_var' = rec.type_of_annotation
           /\ undo_stack' = << >>
           /\ unsaved_changes' = FALSE]_vars

\* C22: every step of setCategory or addCategory that changes the selected
\* category of an active group leaves the unsaved flag set.
C22_CategoryChangeSetsDirty ==
  [][(/\ lastOp'.op \in {"select_type", "add_type"}
      /\ Active
      /\ annotation_type_var' # annotation_type_var)
     => unsaved_changes']_vars

\* the category a load selects for a group without a record, as the code has it
CarriedOver ==
  LET dl == display_types(annotation_types)
  IN  IF InList(annotation_type_var, dl) THEN annotation_type_var
      ELSE IF dl # << >> THEN dl[1] ELSE ""

\* the load of a step reached a group that has no record in the store
LoadedWithoutRecord ==
  /\ LoadCompleted(lastOp')
  /\ current_subfolder_name' \notin DOMAIN annotations_data'

\* C23 as stated: when a group without a persisted category is loaded, the
\* selected category becomes the first entry of the display list (empty when
\* the list is empty), whatever was selected before.
C23_DefaultIsFirstEntry ==
  [][LoadedWithoutRecord =>
       LET dl == display_types(annotation_types')
       IN  annotation_type_var' = IF dl # << >> THEN dl[1] ELSE ""]_vars

\* C23 amended: when a group without a persisted category is loaded, the
\* category selected before the load stays selected if it is an entry of
\* the display list; otherwise the first entry of the display list is
\* selected (empty when the list is empty).
C23_SelectionCarriedOver ==
  [][LoadedWithoutRecord => annotation_type_var' = CarriedOver]_vars

\* "tables" was selected on B, and the advance to C, which has no record,
\* kept it
C23_Witness ==
  /\ lastOp.op = "save_and_next" /\ "loaded" \in lastOp.out
  /\ current_subfolder_name = "C"
  /\ "C" \notin DOMAIN annotations_data
  /\ annotation_type_var = "tables"

\* what the dialog's answer stands for: trimmed and in lower case
Typed(raw) ==
  CASE raw = <<"F", "i", "g">> -> "fig"
    [] raw = <<" ", "f", "i", "g">> -> "fig"
    [] raw = <<"M", "a", "p", " ">> -> "map"
    [] raw = <<"T", "a", "b", "l", "e", "s">> -> "tables"
    [] raw = <<" ", "o", "t", "h", "e", "r", " ">> -> "other"
    [] OTHER -> ""

\* the step answered the dialog with a name (not cancelled, not blank)
Answered(op) ==
  /\ op.op = "add_type"
  /\ ~op.arg[1]
  /\ Typed(op.arg[2]) # ""

\* C24: adding a name whose trimmed, lower-case form is already in the
\* registry leaves the registry as it is, in length and order, and selects
\* that entry.
C24_AddExistingSelectsIt ==
  [][(Answered(lastOp') /\ InList(Typed(lastOp'.arg[2]), annotation_types)) =>
       /\ annotation_types' = annotation_types
       /\ annotation_type_var' = Typed(lastOp'.arg[2])
       /\ "already_exists" \in lastOp'.out]_vars

\* "fig" was added before, and " fig" or "Fig" typed again selected it
C24_Witness ==
  /\ lastOp.op = "add_type" /\ "already_exists" \in lastOp.out
  /\ annotation_type_var = "fig"
  /\ annotation_types = <<"paragraphs", "tables", "images", "headings", "fig", "other">>

\* C25: from the default registry on, the registry never holds a name
\* twice and always ends with "other"; an add of a new name puts it right
\* before "other" and keeps the other entries in their order, no other step
\* changes the registry, and after an add whose write succeeded the types
\* file holds the registry.
C25_RegistryOrdered ==
  /\ [](/\ NoDuplicates(annotation_types)
        /\ annotation_types # << >>
        /\ annotation_types[Len(annotation_types)] = "other")
  /\ [][annotation_types' =
          IF Answered(lastOp') /\ ~InList(Typed(lastOp'.arg[2]), annotation_types)
          THEN SubSeq(annotation_types, 1, Len(annotation_types) - 1)
                 \o <<Typed(lastOp'.arg[2]), "other">>
          ELSE annotation_types]_vars
  /\ [][(lastOp'.op = "add_type" /\ "type_added" \in lastOp'.out
         /\ "write_error" \notin lastOp'.out)
        => annotation_types_file' = Json(annotation_types')]_vars

\* "fig" and then "map" were added: both before "other", in that order, and
\* the file holds the list
C25_Witness ==
  /\ lastOp.op = "add_type" /\ "type_added" \in lastOp.out
  /\ annotation_types =
       <<"paragraphs", "tables", "images", "headings", "fig", "map", "other">>
  /\ annotation_types_file = Json(annotation_types)

\* C26: when the start-up finds the annotation file or the progress file
\* missing or unparsable, the store it could not read is empty (no record,
\* no completed name), the files are left as they are, and the session runs
\* with a group loaded: the first group when no progress was read, with no
\* box in any slot when no annotations were read.
C26_UnreadableStoresStartFresh ==
  (lastOp.op = "load_initial_state" /\ subfolders # << >>) =>
    /\ app_state = "running" /\ Active /\ "loaded" \in lastOp.out
    /\ annotations_file.kind # "json" =>
         /\ annotations_data = EmptyDict
         /\ \A img \in DOMAIN current_subfolder_active_annotations :
              current_subfolder_active_annotations[img] = << >>
    /\ progress_file.kind # "json" =>
         /\ Completed = << >>
         /\ current_subfolder_index = 0
         /\ current_subfolder_name = subfolders[1]
    /\ annotations_file \in ResumeAnnotationsFiles
    /\ progress_file \in ResumeProgressFiles

\* an unparsable annotation file and no progress file: the session is on
\* group A with empty stores
C26_Witness ==
  /\ lastOp.op = "load_initial_state" /\ "loaded" \in lastOp.out
  /\ annotations_file = Corrupt /\ progress_file = Missing
  /\ annotations_data = EmptyDict /\ Completed = << >>
  /\ current_subfolder_name = "A"

\* C27: with a group active, the selected category is always an entry of
\* the display list or empty, and so never "other".
C27_SelectedIsDisplayed ==
  Active =>
    \/ annotation_type_var = ""
    \/ InList(annotation_type_var, display_types(annotation_types))

\* C28: a saveAndAdvance whose save could not write a store does not move
\* on: the active group, its boxes and the unsaved flag stay as they were
\* and the failure is reported.
C28_AdvanceOnlyAfterSave ==
  [][(lastOp'.op = "save_and_next" /\ Active /\ "write_error" \in lastOp'.out) =>
       /\ current_subfolder_name' = current_subfolder_name
       /\ current_subfolder_index' = current_subfolder_index
       /\ current_subfolder_active_annotations' = current_subfolder_active_annotations
       /\ unsaved_changes' = unsaved_changes]_vars

\* C29: every image name that keys the active box map is the name of an
\* image shown in one of the slots of the current group.
C29_KeysAreSlotImages ==
  DOMAIN current_subfolder_active_annotations \subseteq SlotImages

\* the undo entries that name the image
UndoEntriesFor(img) ==
  Cardinality({i \in 1 .. Len(undo_stack) : undo_stack[i][2] = img})
Loaded(img) == Get(as_loaded, img, << >>)

\* C30: for each image the undo entries naming it are at most as many as
\* its boxes, and at most as many as the boxes it got since the group was
\* loaded; an undo with a non-empty stack removes exactly the last box of
\* the image of the top entry and no other box, and the boxes the image had
\* when the group was loaded are still its first boxes.
C30_UndoEntriesHaveBoxes ==
  /\ [](\A img \in Images :
          /\ UndoEntriesFor(img) <= Len(ActiveList(img))
          /\ UndoEntriesFor(img) + Len(Loaded(img)) <= Len(ActiveList(img)))
  /\ [][(lastOp'.op = "undo" /\ undo_stack # << >>) =>
          /\ undo_stack[Len(undo_stack)][2] \in Images
          /\ undo_stack' = SubSeq(undo_stack, 1, Len(undo_stack) - 1)
          /\ \A img \in Images :
               IF img = undo_stack[Len(undo_stack)][2]
               THEN /\ ActiveList(img) # << >>
                    /\ ActiveList(img)' =
                         SubSeq(ActiveList(img), 1, Len(ActiveList(img)) - 1)
                    /\ Len(Loaded(img)) <= Len(ActiveList(img)')
                    /\ SubSeq(ActiveList(img)', 1, Len(Loaded(img))) = Loaded(img)
               ELSE ActiveList(img)' = ActiveList(img)]_vars

\* on group A a box was drawn on a1 next to the stored one and undone: the
\* stored box is still there and the stack is empty
C30_Witness ==
  /\ lastOp.op = "undo" /\ "undone" \in lastOp.out
  /\ current_subfolder_name = "A"
  /\ undo_stack = << >>
  /\ Loaded("a1") = <<StoredBox>>
  /\ ActiveList("a1") = <<StoredBox>>

\* C31: a save without advance leaves the current index, the box list of
\* every slot's image, the selected category and the undo stack as they
\* were before the call.
C31_SaveKeepsSession ==
  [][lastOp'.op = "save" =>
       /\ current_subfolder_index' = current_subfolder_index
       /\ current_subfolder_name' = current_subfolder_name
       /\ SlotImages' = SlotImages
       /\ \A img \in SlotImages : ActiveList(img)' = ActiveList(img)
       /\ annotation_type_var' = annotation_type_var
       /\ undo_stack' = undo_stack]_vars

\* C32: an exit request made with unsaved changes and answered with "save
\* and exit" ends with the session closed, whether or not a group is loaded.
C32_SaveOnExitCloses ==
  [][(lastOp'.op = "close" /\ unsaved_changes /\ lastOp'.arg = "save_exit")
     => Closed']_vars

\* the run of advances starts here, on the group at index i
RunStarts(i) ==
  /\ ops = PrepOps /\ pointer_slot = -1
  /\ Active
  /\ current_subfolder_index = i

\* where the run that started at index i stands after ops - PrepOps calls
AdvancedFrom(i) ==
  LET k == ops - PrepOps
      last == Len(subfolders) - 1
  IN  /\ Active
      /\ current_subfolder_index = Min(i + k, last)
      /\ current_subfolder_name = subfolders[current_subfolder_index + 1]
      /\ \A j \in i .. Min(i + k - 1, last) :
           /\ InList(subfolders[j + 1], Completed)
           /\ Has(annotations_data, subfolders[j + 1])
      /\ (k >= 1 /\ "write_error" \notin lastOp.out) =>
           /\ annotations_file = Json(annotations_data)
           /\ progress_file = Json(progress_data)

\* C33: when only saveAndAdvance is invoked from an active group at index i,
\* the k-th call leaves the session on the group at index i + k until the
\* last group is reached, which takes exactly groupCount-1-i calls, and on
\* the last group from then on; every group the calls were made on is in the
\* completed list and has a record in the annotation store, so one call on
\* the last group leaves every group from i through the last completed and
\* recorded; the files hold the stores after a call whose writes succeeded.
C33_RepeatedAdvanceCompletes ==
  \A i \in 0 .. (Cardinality(DirsOf("root")) - 1) :
    [](RunStarts(i) => []AdvancedFrom(i))

\* three calls from A: two advances, then the call on C that stays there,
\* with A, B and C completed and recorded
C33_Witness ==
  /\ lastOp.op = "save_and_next" /\ "boundary" \in lastOp.out
  /\ ops = PrepOps + 3
  /\ current_subfolder_index = 2
  /\ Completed = <<"A", "B", "C">>
  /\ DOMAIN annotations_data = {"A", "B", "C"}
  /\ annotations_data["B"].type_of_annotation = "tables"

\* the group list holds exactly the subfolders of the main folder, in
\* ascending lexicographic order
GroupsSorted ==
  /\ Elems(subfolders) = DirsOf(main_folder_path)
  /\ \A a, b \in 1 .. Len(subfolders) : a < b => Rank(subfolders[a]) < Rank(subfolders[b])

Stores == <<annotations_data, progress_data, annotations_file, progress_file>>

\* C34: while a group is active the current index is at least 0 and below
\* the number of groups, and the active name is the entry at that index of
\* the lexicographically sorted group list; while no group is loaded the
\* index is -1 and the name is empty, and a save, a saveAndAdvance or a
\* "save and exit" then changes neither store, in memory or on file.
C34_IndexNamesActiveGroup ==
  /\ [](Active =>
          /\ 0 <= current_subfolder_index
          /\ current_subfolder_index < Len(subfolders)
          /\ GroupsSorted
          /\ current_subfolder_name = subfolders[current_subfolder_index + 1])
  /\ [](~Active => current_subfolder_index = -1 /\ current_subfolder_name = "")
  /\ [][(~Active /\ lastOp'.op \in {"save", "save_and_next"})
        => UNCHANGED Stores /\ ~Active']_vars
  /\ [][(~Active /\ lastOp'.op = "close" /\ lastOp'.arg = "save_exit")
        => UNCHANGED Stores]_vars

\* a main folder without subfolders: nothing was loaded, the clear left the
\* unsaved flag set and the save after it wrote nothing
C34_Witness ==
  /\ lastOp.op = "save" /\ app_state = "running"
  /\ ~Active /\ current_subfolder_index = -1
  /\ subfolders = << >>
  /\ unsaved_changes
  /\ annotations_data = EmptyDict /\ progress_data = EmptyDict

\* the records of the in-memory annotation store with category t
RecordsOf(t) ==
  {g \in DOMAIN annotations_data :
     /\ "type_of_annotation" \in DOMAIN annotations_data[g]
     /\ annotations_data[g].type_of_annotation = t}

\* C35: after the start-up has loaded the annotation store and after every
\* save (alone, before an advance or before an exit) there is one count per
\* entry of the display list, and it is the number of group records of the
\* in-memory annotation store that have that category.
C35_CountsMatchRecords ==
  (lastOp.op \in {"load_initial_state", "save", "save_and_next", "close"}) =>
    /\ DOMAIN count_labels = Elems(display_types(annotation_types))
    /\ \A t \in DOMAIN count_labels : count_labels[t] = Cardinality(RecordsOf(t))

\* "fig" was added on B and B saved with it: one group counts under "fig"
\* and one, A, under "tables"
C35_Witness ==
  /\ lastOp.op = "save_and_next"
  /\ "B" \in DOMAIN annotations_data
  /\ annotations_data["B"].type_of_annotation = "fig"
  /\ count_labels["fig"] = 1
  /\ count_labels["tables"] = 1
  /\ count_labels["paragraphs"] = 0
====
